---- MODULE Spec2Model ----
(***************************************************************************)
(* A model of dawgyg/bugbounty_tools.                                      *)
(*                                                                         *)
(*   thc_livecheck.py  the worker pool that drains a queue of hostnames,   *)
(*                     the per-host pipeline (resolve, classify, port      *)
(*                     scan, fetch, screenshot), the shared result lists   *)
(*                     and counters, status_lock, the interrupted flag and *)
(*                     the main flow that joins the workers and saves.     *)
(*   thc_recon.py      the paginated fetcher (modelled further below).     *)
(*                                                                         *)
(* Strings that the code parses (IP addresses, response bodies) are        *)
(* sequences of one-character strings, so that split, find, lower, strip   *)
(* and replace are computed character by character as Python does.         *)
(***************************************************************************)
EXTENDS Integers, Sequences, FiniteSets, TLC

(***************************************************************************)
(* Bounds of the model.                                                    *)
(***************************************************************************)
\* the longest input file (number of hostnames) that is enumerated
MaxHosts == 2
\* the largest --threads value that is enumerated
MaxThreads == 2
\* the most dot-separated parts of an address handed to is_private_ip
MaxParts == 4
\* the most tokens of a response body handed to the title extraction
MaxTokens == 4
\* the most header fields of a response handed to the fingerprint formatting
MaxHeaders == 2
\* the most times the thc_recon command is started on one output file
MaxRuns == 2
\* the most requests of one thc_recon run that fail
MaxErrors == 1

\* the longest response text, in tokens, given to parse_response
MaxLinkTokens == 4

(***************************************************************************)
(* Program constants.                                                      *)
(***************************************************************************)
\* thc_livecheck.py:50
WEB_PORTS == <<80, 443, 8080, 8443, 8000, 3000, 8081, 8444>>

\* thc_livecheck.py:71 and :130, the ports spoken to over https
HTTPS_PORTS == {443, 8443, 8444}

(***************************************************************************)
(* Strings as sequences of characters, with Python's str operations.       *)
(* Positions are 0-based as in Python; a slice s[a:b] is Slice(s, a, b).   *)
(***************************************************************************)
\* thc_livecheck.py:147 and thc_recon.py:42, the characters str.strip() removes
WHITESPACE == {" ", "\n", "\r", "\t"}

\* thc_livecheck.py:57, the characters int() reads as decimal digits
DIGITS == {"0", "1", "2", "3", "4", "5", "6", "7", "8", "9"}

\* s[a:b]
Slice(s, a, b) == IF b <= a THEN <<>> ELSE SubSeq(s, a + 1, b)

\* s.startswith(sub) at 0-based position i
MatchAt(s, sub, i) ==
    /\ i >= 0
    /\ i + Len(sub) <= Len(s)
    /\ \A k \in 1..Len(sub) : s[i + k] = sub[k]

\* s.find(sub, start): the lowest position >= start where sub occurs, else -1
Find(s, sub, start) ==
    LET hits == {i \in start..(Len(s) - Len(sub)) : MatchAt(s, sub, i)}
    IN  IF hits = {} THEN -1
        ELSE CHOOSE i \in hits : \A j \in hits : i <= j

UPPERCASE ==
    <<"A", "B", "C", "D", "E", "F", "G", "H", "I", "J", "K", "L", "M", "N", "O", "P", "Q",
      "R", "S", "T", "U", "V", "W", "X", "Y", "Z">>

LOWERCASE ==
    <<"a", "b", "c", "d", "e", "f", "g", "h", "i", "j", "k", "l", "m", "n", "o", "p", "q",
      "r", "s", "t", "u", "v", "w", "x", "y", "z">>

\* the lower-case form of one character: a sequence, because str.lower() maps
\* U+0130 (capital I with dot above) to the two characters "i", U+0307
LowerChar(c) ==
    IF c = "U+0130" THEN <<"i", "U+0307">>
    ELSE IF \E i \in 1..Len(UPPERCASE) : UPPERCASE[i] = c
         THEN <<LOWERCASE[CHOOSE i \in 1..Len(UPPERCASE) : UPPERCASE[i] = c]>>
         ELSE <<c>>

RECURSIVE Lower(_)
\* s.lower()
Lower(s) == IF s = <<>> THEN <<>> ELSE LowerChar(Head(s)) \o Lower(Tail(s))

RECURSIVE LStrip(_)
LStrip(s) == IF s # <<>> /\ Head(s) \in WHITESPACE THEN LStrip(Tail(s)) ELSE s

RECURSIVE RStrip(_)
RStrip(s) ==
    IF s # <<>> /\ s[Len(s)] \in WHITESPACE THEN RStrip(SubSeq(s, 1, Len(s) - 1)) ELSE s

\* s.strip()
Strip(s) == RStrip(LStrip(s))

\* s.replace(a, b) for single characters a, b
Replace(s, a, b) == [i \in 1..Len(s) |-> IF s[i] = a THEN b ELSE s[i]]

RECURSIVE Split(_, _)
\* s.split(sep) for a single-character sep: always at least one part
Split(s, sep) ==
    LET i == Find(s, <<sep>>, 0)
    IN  IF i = -1 THEN <<s>>
        ELSE <<Slice(s, 0, i)>> \o Split(Slice(s, i + 1, Len(s)), sep)

DigitVal(c) ==
    CASE c = "0" -> 0 [] c = "1" -> 1 [] c = "2" -> 2 [] c = "3" -> 3 [] c = "4" -> 4
      [] c = "5" -> 5 [] c = "6" -> 6 [] c = "7" -> 7 [] c = "8" -> 8 [] c = "9" -> 9

\* whether int(s) succeeds: surrounding whitespace is allowed, then an optional
\* sign, then one or more digits; anything else raises ValueError
IntOK(s) ==
    LET t == Strip(s)
        d == IF t # <<>> /\ Head(t) \in {"+", "-"} THEN Tail(t) ELSE t
    IN  d # <<>> /\ \A k \in 1..Len(d) : d[k] \in DIGITS

RECURSIVE DigitsVal(_)
DigitsVal(d) ==
    IF d = <<>> THEN 0 ELSE 10 * DigitsVal(SubSeq(d, 1, Len(d) - 1)) + DigitVal(d[Len(d)])

\* int(s), for s with IntOK(s)
ParseInt(s) ==
    LET t == Strip(s)
    IN  IF Head(t) = "-" THEN 0 - DigitsVal(Tail(t))
        ELSE IF Head(t) = "+" THEN DigitsVal(Tail(t))
        ELSE DigitsVal(t)

(***************************************************************************)
(* thc_livecheck.py: is_private_ip                                         *)
(***************************************************************************)
\* list(map(int, ip.split('.'))) raises ValueError on any part int() rejects;
\* octets[1] raises IndexError when there is one part only. The bare except
\* turns both into the final "return False".
is_private_ip(ip) ==
    LET parts == Split(ip, ".")
    IN  IF \E k \in 1..Len(parts) : ~IntOK(parts[k]) THEN FALSE
        ELSE LET octets == [k \in 1..Len(parts) |-> ParseInt(parts[k])]
             IN  IF octets[1] = 10 THEN TRUE
                 ELSE IF octets[1] = 172
                      THEN Len(octets) >= 2 /\ 16 <= octets[2] /\ octets[2] <= 31
                 ELSE IF octets[1] = 192
                      THEN Len(octets) >= 2 /\ octets[2] = 168
                 ELSE FALSE

(***************************************************************************)
(* thc_livecheck.py: the title and the fingerprint of a response           *)
(***************************************************************************)
TITLE_OPEN == <<"<", "t", "i", "t", "l", "e">>

TITLE_CLOSE == <<"<", "/", "t", "i", "t", "l", "e", ">">>

NO_TITLE == <<"N", "o", " ", "t", "i", "t", "l", "e">>

\* lines 140-147. text.find(">", start) + 1 is 0 when no ">" follows.
extract_title(text) ==
    LET low == Lower(text)
    IN  IF Find(low, TITLE_OPEN, 0) = -1 THEN NO_TITLE
        ELSE LET start == Find(text, <<">">>, Find(low, TITLE_OPEN, 0)) + 1
                 end == Find(text, TITLE_CLOSE, start)
             IN  IF end = -1 THEN NO_TITLE
                 ELSE Replace(Replace(Strip(Slice(text, start, end)), "\n", " "),
                              "\r", " ")

\* the header field names the code asks for, lines 134-135
SERVER == <<"S", "e", "r", "v", "e", "r">>

X_POWERED_BY == <<"X", "-", "P", "o", "w", "e", "r", "e", "d", "-", "B", "y">>

\* r.headers.get(name, default): r.headers is a CaseInsensitiveDict, the field
\* names of the response are compared in lower case
HeaderGet(headers, name, default) ==
    LET ks == {k \in DOMAIN headers : Lower(k) = Lower(name)}
    IN  IF ks = {} THEN default ELSE headers[CHOOSE k \in ks : TRUE]

\* server_str when the Server header has no default
server_strNoDefault(headers) ==
    LET server == HeaderGet(headers, SERVER, "")
        powered_by == HeaderGet(headers, X_POWERED_BY, "")
    IN  IF powered_by # "" THEN server \o " (" \o powered_by \o ")" ELSE server

\* lines 134-138
server_str(headers) ==
    LET server == HeaderGet(headers, SERVER, "Unknown")
        powered_by == HeaderGet(headers, X_POWERED_BY, "")
    IN  IF powered_by # "" THEN server \o " (" \o powered_by \o ")" ELSE server

\* lines 71 and 130
scheme(port) == IF port \in HTTPS_PORTS THEN "https" ELSE "http"

(***************************************************************************)
(* The network the tool runs against. Each hostname has one behaviour for  *)
(* the whole run, so that what an uninterrupted run would have produced is *)
(* defined. The hostnames cover: a private address with two open ports,    *)
(* one of which fails the HTTP request; a name that does not resolve; a    *)
(* public address whose open ports are probed out of ascending order and   *)
(* whose scan ends with an OSError; a name with an empty label, which      *)
(* socket.gethostbyname rejects with UnicodeError (a ValueError, not an    *)
(* OSError); a public address with no open port.                           *)
(***************************************************************************)
HOSTS == <<"a.example.com", "b.example.com", "c.example.com", "d..example.com",
           "e.example.com">>

IP_A == <<"1", "0", ".", "0", ".", "0", ".", "5">>

IP_C == <<"8", ".", "8", ".", "8", ".", "8">>

IP_E == <<"1", "7", "2", ".", "3", "2", ".", "0", ".", "1">>

BODY_WELCOME ==
    <<"<", "t", "i", "t", "l", "e", ">", "W", "e", "l", "c", "o", "m", "e">> \o TITLE_CLOSE

BODY_PLAIN == <<"o", "k">>

\* socket.gethostbyname(host), line 99
DNS(h) ==
    CASE h = "a.example.com" -> [kind |-> "ip", ip |-> IP_A]
      [] h = "b.example.com" -> [kind |-> "gaierror", ip |-> <<>>]
      [] h = "c.example.com" -> [kind |-> "ip", ip |-> IP_C]
      [] h = "d..example.com" -> [kind |-> "UnicodeError", ip |-> <<>>]
      [] OTHER -> [kind |-> "ip", ip |-> IP_E]

\* socket.socket(); settimeout(2); connect_ex((host, port)), lines 107-110:
\* "open" is result 0, "closed" any other result, "raise" an OSError
Connect(h, p) ==
    CASE h = "a.example.com" /\ p \in {80, 443} -> "open"
      [] h = "c.example.com" /\ p \in {8080, 8000} -> "open"
      [] h = "c.example.com" /\ p = 3000 -> "raise"
      [] OTHER -> "closed"

\* requests.get(url, ...), line 133: ok = FALSE when it raises
HTTP(h, p) ==
    CASE h = "a.example.com" /\ p = 80 ->
            [ok |-> TRUE, headers |-> [x \in {SERVER} |-> "nginx"],
             text |-> BODY_WELCOME]
      [] h = "c.example.com" /\ p = 8000 ->
            [ok |-> TRUE,
             headers |-> [x \in {Lower(SERVER), X_POWERED_BY} |->
                             IF x = X_POWERED_BY THEN "PHP/8.1" ELSE "Apache"],
             text |-> BODY_PLAIN]
      [] h = "c.example.com" /\ p = 8080 ->
            [ok |-> TRUE, headers |-> [x \in {} |-> ""], text |-> BODY_PLAIN]
      [] OTHER -> [ok |-> FALSE, headers |-> [x \in {} |-> ""], text |-> <<>>]

\* the browser session of take_screenshot, lines 75-80: FALSE when it raises
Capture(h, p) == h = "a.example.com"

\* What the pure functions of worker() return on this network, computed once
\* for every hostname and port.
HostNames == {HOSTS[i] : i \in 1..Len(HOSTS)}

Ports == {WEB_PORTS[i] : i \in 1..Len(WEB_PORTS)}

\* line 100: is_private_ip(resolved_ip), for the hostnames that resolve
is_internal == [h \in HostNames |-> DNS(h).kind = "ip" /\ is_private_ip(DNS(h).ip)]

\* lines 140-147: the title of the response
title_of == [h \in HostNames, p \in Ports |-> extract_title(HTTP(h, p).text)]

\* lines 134-138: the fingerprint of the response
fingerprint_of == [h \in HostNames, p \in Ports |-> server_str(HTTP(h, p).headers)]

VARIABLES
    \* ---- thc_livecheck.py ----
    args,               \* parsed command line: titles, fingerprint, screenshots, threads
    subdomains,         \* the input file's hostnames, in order
    task_queue,         \* queue.Queue of hostnames not yet taken
    interrupted,        \* the global cancellation flag
    notice,             \* whether sigint_handler has printed "Interrupted by user"
    status_lock,        \* 0 when free, else the worker holding it
    scanned_counter,
    found_counter,
    screenshot_counter,
    internal_list,
    live_results,
    titles_list,
    fingerprint_list,
    pc,                 \* per worker: its position in worker()
    host,               \* per worker: the hostname being processed
    open_ports,         \* per worker: the local list open_ports
    idx,                \* per worker: index of the current port in the loop it is in
    browser,            \* the (host, port) pairs a browser session was launched for
    main_pc,            \* position of main(): "wait", "join", "done"
    files,              \* the output files as written by main(), and whether the
                        \* "SCAN COMPLETE" summary was printed
    \* ---- thc_recon.py ----
    recon_args,         \* parsed command line: cnames_only, no_cnames
    recon_pc,           \* position of main() and fetch_all()
    all_results,        \* the set of entries fetched or read back
    total_requests,
    errors,
    url_base,           \* fetch_all's url_base: the endpoint, "sb" or "cn"
    url,                \* fetch_all's url: the page to request next
    next_page,          \* the next-page link of the last response
    status_code,        \* the status of the last response, 0 when the request raised
    output_file,        \* [exists, lines]: the output file as closing it leaves it
    to_write,           \* the rest of sorted(all_results) in a save loop
    run,                \* how many times the command has been started
    left_off,           \* the page an interrupted run was at (the code keeps no record)
    saved,              \* the entries a completed save has put in the output file
    \* ---- a single call of one of the pure functions ----
    fn_in,              \* the argument
    fn_out              \* [done, value]: whether it has returned, and what

\* the variables of thc_recon.py
recon == <<recon_args, recon_pc, url_base, all_results, total_requests, errors, url, next_page,
           status_code,
           output_file, to_write, run, left_off, saved>>

\* the variables thc_livecheck.py does not touch
other == <<recon, fn_in, fn_out>>

\* the variables of thc_livecheck.py
livecheck == <<args, subdomains, task_queue, interrupted, notice, status_lock,
               scanned_counter, found_counter, screenshot_counter, internal_list,
               live_results, titles_list, fingerprint_list, pc, host, open_ports, idx,
               browser, main_pc, files>>

vars == <<livecheck, other>>

\* fetch_all's url when it is None
NO_URL == [endpoint |-> "", page |-> 0]

\* the state of thc_recon.py's variables while thc_recon.py is not run
NoRecon ==
    /\ recon_args = [cnames_only |-> FALSE, no_cnames |-> FALSE]
    /\ recon_pc = "done"
    /\ all_results = {}
    /\ total_requests = 0
    /\ errors = 0
    /\ url_base = ""
    /\ url = NO_URL
    /\ next_page = NO_URL
    /\ status_code = 0
    /\ output_file = [exists |-> FALSE, lines |-> <<>>]
    /\ to_write = <<>>
    /\ run = 0
    /\ left_off = NO_URL
    /\ saved = {}

(***************************************************************************)
(* thc_livecheck.py: main() up to the start of the threads                 *)
(***************************************************************************)
HostRank(h) == CHOOSE i \in 1..Len(HOSTS) : HOSTS[i] = h

\* the input files enumerated: 1..MaxHosts distinct hostnames, in HOSTS order
Inputs ==
    {s \in UNION {[1..n -> {HOSTS[i] : i \in 1..Len(HOSTS)}] : n \in 1..MaxHosts} :
        \A i, j \in 1..Len(s) : i < j => HostRank(s[i]) < HostRank(s[j])}

\* the command lines enumerated: -t, -f and -s all given or all absent, with
\* every --threads value up to MaxThreads
ArgSets ==
    {a \in [titles : BOOLEAN, fingerprint : BOOLEAN, screenshots : BOOLEAN,
             threads : 1..MaxThreads] :
        a.titles = a.fingerprint /\ a.titles = a.screenshots}

Workers == 1..args.threads

\* the state when all threads have been started (line 261)
Init ==
    /\ args \in ArgSets
    /\ subdomains \in Inputs
    /\ task_queue = subdomains
    /\ interrupted = FALSE
    /\ notice = FALSE
    /\ status_lock = 0
    /\ scanned_counter = 0
    /\ found_counter = 0
    /\ screenshot_counter = 0
    /\ internal_list = <<>>
    /\ live_results = <<>>
    /\ titles_list = <<>>
    /\ fingerprint_list = <<>>
    /\ pc = [w \in Workers |-> "poll"]
    /\ host = [w \in Workers |-> ""]
    /\ open_ports = [w \in Workers |-> <<>>]
    /\ idx = [w \in Workers |-> 0]
    /\ browser = {}
    /\ main_pc = "wait"
    /\ files = [written |-> FALSE, live |-> <<>>, internal |-> <<>>, titles |-> <<>>,
                fingerprint |-> <<>>, summary |-> FALSE]
    /\ NoRecon
    /\ fn_in = <<>>
    /\ fn_out = [done |-> FALSE, value |-> FALSE]

(***************************************************************************)
(* thc_livecheck.py: worker()                                              *)
(*                                                                         *)
(* A step that reads the flag and then makes one blocking call is one      *)
(* action: an interrupt that arrives between the read and the call changes *)
(* nothing but the flag, so it is the interrupt arriving after the call.   *)
(* task_queue.task_done() changes a counter nothing reads. The locals      *)
(* host, open_ports and the loop index are dead between two iterations of  *)
(* the while loop and are cleared there.                                   *)
(***************************************************************************)
RECURSIVE Insert(_, _)
Insert(x, s) ==
    IF s = <<>> THEN <<x>>
    ELSE IF x <= Head(s) THEN <<x>> \o s
    ELSE <<Head(s)>> \o Insert(x, Tail(s))

RECURSIVE Sorted(_)
\* list.sort() on a list of integers
Sorted(s) == IF s = <<>> THEN <<>> ELSE Insert(Head(s), Sorted(Tail(s)))

alive(w) == pc[w] \notin {"returned", "crashed"}

\* worker w moves to position p with locals h, o, i
Locals(w, p, h, o, i) ==
    /\ pc' = [pc EXCEPT ![w] = p]
    /\ host' = [host EXCEPT ![w] = h]
    /\ open_ports' = [open_ports EXCEPT ![w] = o]
    /\ idx' = [idx EXCEPT ![w] = i]

\* worker w moves to position p, its locals unchanged
Step(w, p) == Locals(w, p, host[w], open_ports[w], idx[w])

\* worker w leaves the current iteration of the while loop (or the thread) at p
Leave(w, p) == Locals(w, p, "", <<>>, 0)

\* lines 88-96: return when the flag is set or the queue stays empty for the
\* timeout, else take the next hostname. Threads that are about to poll are
\* in the same state and which of them the queue serves is arbitrary; the
\* model lets the lowest-numbered one go first (a symmetry reduction: every
\* run of the program is a run of the model up to renaming the threads).
Poll(w) ==
    /\ pc[w] = "poll"
    /\ \A v \in Workers : v < w => pc[v] # "poll"
    /\ IF interrupted \/ task_queue = <<>>
       THEN Leave(w, "returned") /\ UNCHANGED task_queue
       ELSE /\ Locals(w, "resolve", Head(task_queue), <<>>, 0)
            /\ task_queue' = Tail(task_queue)
    /\ UNCHANGED <<other, notice, args, subdomains, interrupted, status_lock, scanned_counter,
                   found_counter, screenshot_counter, internal_list, live_results,
                   titles_list, fingerprint_list, browser, main_pc, files>>

\* lines 98-100 and 113: gaierror and OSError are caught and lead to the counter
\* update; any other exception leaves worker() and ends the thread
Resolve(w) ==
    /\ pc[w] = "resolve"
    /\ LET r == DNS(host[w])
       IN  IF r.kind = "gaierror" THEN Step(w, "count_lock")
           ELSE IF r.kind # "ip" THEN Leave(w, "crashed")
           ELSE IF is_internal[host[w]] THEN Step(w, "internal_lock")
           ELSE Locals(w, "probe", host[w], open_ports[w], 1)
    /\ UNCHANGED <<other, notice, args, subdomains, task_queue, interrupted, status_lock,
                   scanned_counter, found_counter, screenshot_counter, internal_list,
                   live_results, titles_list, fingerprint_list, browser, main_pc, files>>

\* AcquireInternal when line 102 is not inside "with status_lock"
AcquireInternalNoLock(w) ==
    /\ pc[w] = "internal_lock"
    /\ Step(w, "internal_append")
    /\ UNCHANGED <<other, notice, args, subdomains, task_queue, interrupted, status_lock,
                   scanned_counter, found_counter, screenshot_counter, internal_list,
                   live_results, titles_list, fingerprint_list, browser, main_pc, files>>

\* line 101: with status_lock
AcquireInternal(w) ==
    /\ pc[w] = "internal_lock"
    /\ status_lock = 0
    /\ status_lock' = w
    /\ Step(w, "internal_append")
    /\ UNCHANGED <<other, notice, args, subdomains, task_queue, interrupted, scanned_counter,
                   found_counter, screenshot_counter, internal_list, live_results,
                   titles_list, fingerprint_list, browser, main_pc, files>>

\* line 102, and leaving the with block
InternalAppend(w) ==
    /\ pc[w] = "internal_append"
    /\ internal_list' = Append(internal_list, <<host[w], DNS(host[w]).ip>>)
    /\ status_lock' = 0
    /\ Locals(w, "probe", host[w], open_ports[w], 1)
    /\ UNCHANGED <<other, notice, args, subdomains, task_queue, interrupted, scanned_counter,
                   found_counter, screenshot_counter, live_results, titles_list,
                   fingerprint_list, browser, main_pc, files>>

\* lines 104-114, one iteration: break when the flag is set; an OSError raised
\* by the probe ends the loop with the ports found so far
Probe(w) ==
    /\ pc[w] = "probe"
    /\ LET port == WEB_PORTS[idx[w]]
           result == Connect(host[w], port)
       IN  IF interrupted \/ result = "raise"
           THEN Step(w, "count_lock")
           ELSE Locals(w, IF idx[w] = Len(WEB_PORTS) THEN "count_lock" ELSE "probe",
                       host[w],
                       IF result = "open" THEN Append(open_ports[w], port)
                       ELSE open_ports[w],
                       idx[w] + 1)
    /\ UNCHANGED <<other, notice, args, subdomains, task_queue, interrupted, status_lock,
                   scanned_counter, found_counter, screenshot_counter, internal_list,
                   live_results, titles_list, fingerprint_list, browser, main_pc, files>>

\* AcquireCount when the lock is taken without waiting for its holder
AcquireCountNoWait(w) ==
    /\ pc[w] = "count_lock"
    /\ status_lock' = w
    /\ Step(w, "inc_scanned")
    /\ UNCHANGED <<other, notice, args, subdomains, task_queue, interrupted,
                   scanned_counter, found_counter, screenshot_counter, internal_list,
                   live_results, titles_list, fingerprint_list, browser, main_pc, files>>

\* line 116: with status_lock
AcquireCount(w) ==
    /\ pc[w] = "count_lock"
    /\ status_lock = 0
    /\ status_lock' = w
    /\ Step(w, "inc_scanned")
    /\ UNCHANGED <<other, notice, args, subdomains, task_queue, interrupted, scanned_counter,
                   found_counter, screenshot_counter, internal_list, live_results,
                   titles_list, fingerprint_list, browser, main_pc, files>>

\* IncScanned when line 117 is left out
IncScannedSkipped(w) ==
    /\ pc[w] = "inc_scanned"
    /\ Step(w, "inc_found")
    /\ UNCHANGED <<other, notice, args, subdomains, task_queue, interrupted, status_lock,
                   scanned_counter, found_counter, screenshot_counter, internal_list,
                   live_results, titles_list, fingerprint_list, browser, main_pc, files>>

\* line 117
IncScanned(w) ==
    /\ pc[w] = "inc_scanned"
    /\ scanned_counter' = scanned_counter + 1
    /\ Step(w, "inc_found")
    /\ UNCHANGED <<other, notice, args, subdomains, task_queue, interrupted, status_lock,
                   found_counter, screenshot_counter, internal_list, live_results,
                   titles_list, fingerprint_list, browser, main_pc, files>>

\* IncFound when line 119 is not guarded by "if open_ports"
IncFoundUnguarded(w) ==
    /\ pc[w] = "inc_found"
    /\ found_counter' = found_counter + 1
    /\ status_lock' = 0
    /\ IF open_ports[w] # <<>> THEN Step(w, "live") ELSE Leave(w, "poll")
    /\ UNCHANGED <<other, notice, args, subdomains, task_queue, interrupted,
                   scanned_counter, screenshot_counter, internal_list, live_results,
                   titles_list, fingerprint_list, browser, main_pc, files>>

\* lines 118-122: the found counter, print_status, leaving the with block; then
\* the branch on open_ports (with none: task_done and the next poll)
IncFound(w) ==
    /\ pc[w] = "inc_found"
    /\ found_counter' = IF open_ports[w] # <<>> THEN found_counter + 1 ELSE found_counter
    /\ status_lock' = 0
    /\ IF open_ports[w] # <<>> THEN Step(w, "live") ELSE Leave(w, "poll")
    /\ UNCHANGED <<other, notice, args, subdomains, task_queue, interrupted, scanned_counter,
                   screenshot_counter, internal_list, live_results, titles_list,
                   fingerprint_list, browser, main_pc, files>>

\* LiveAppend when line 122 does not sort open_ports
LiveAppendUnsorted(w) ==
    /\ pc[w] = "live"
    /\ live_results' = Append(live_results, <<host[w], open_ports[w]>>)
    /\ Locals(w, "fetch", host[w], open_ports[w], 1)
    /\ UNCHANGED <<other, notice, args, subdomains, task_queue, interrupted, status_lock,
                   scanned_counter, found_counter, screenshot_counter, internal_list,
                   titles_list, fingerprint_list, browser, main_pc, files>>

\* lines 123-125
LiveAppend(w) ==
    /\ pc[w] = "live"
    /\ live_results' = Append(live_results, <<host[w], Sorted(open_ports[w])>>)
    /\ Locals(w, "fetch", host[w], Sorted(open_ports[w]), 1)
    /\ UNCHANGED <<other, notice, args, subdomains, task_queue, interrupted, status_lock,
                   scanned_counter, found_counter, screenshot_counter, internal_list,
                   titles_list, fingerprint_list, browser, main_pc, files>>

\* the end of one iteration of the loop over open_ports (line 127); after the
\* last port, task_done() and the next poll
Advance(w) ==
    IF idx[w] >= Len(open_ports[w]) THEN Leave(w, "poll")
    ELSE Locals(w, "fetch", host[w], open_ports[w], idx[w] + 1)

\* lines 155-156
AfterFingerprint == IF args.screenshots THEN "shot" ELSE "next"

\* lines 152-153: fingerprint_list is None unless -f was given
AfterTitle == IF args.fingerprint THEN "fingerprint" ELSE AfterFingerprint

\* lines 149-150: titles_list is None unless -t was given
AfterFetch == IF args.titles THEN "title" ELSE AfterTitle

Goto(w, stage) == IF stage = "next" THEN Advance(w) ELSE Step(w, stage)

\* lines 127-133 and 158-159: break when the flag is set; a request that raises
\* is swallowed by the bare except around the whole iteration
Fetch(w) ==
    /\ pc[w] = "fetch"
    /\ IF interrupted THEN Leave(w, "poll")
       ELSE IF HTTP(host[w], open_ports[w][idx[w]]).ok THEN Goto(w, AfterFetch)
       ELSE Advance(w)
    /\ UNCHANGED <<other, notice, args, subdomains, task_queue, interrupted, status_lock,
                   scanned_counter, found_counter, screenshot_counter, internal_list,
                   live_results, titles_list, fingerprint_list, browser, main_pc, files>>

\* lines 140-150
TitleAppend(w) ==
    /\ pc[w] = "title"
    /\ LET port == open_ports[w][idx[w]]
       IN  titles_list' = Append(titles_list,
                                 <<host[w], port, title_of[host[w], port]>>)
    /\ Goto(w, AfterTitle)
    /\ UNCHANGED <<other, notice, args, subdomains, task_queue, interrupted, status_lock,
                   scanned_counter, found_counter, screenshot_counter, internal_list,
                   live_results, fingerprint_list, browser, main_pc, files>>

\* lines 134-138 and 152-153
FingerprintAppend(w) ==
    /\ pc[w] = "fingerprint"
    /\ LET port == open_ports[w][idx[w]]
       IN  fingerprint_list' = Append(fingerprint_list,
                                      <<host[w], port, fingerprint_of[host[w], port]>>)
    /\ Goto(w, AfterFingerprint)
    /\ UNCHANGED <<other, notice, args, subdomains, task_queue, interrupted, status_lock,
                   scanned_counter, found_counter, screenshot_counter, internal_list,
                   live_results, titles_list, browser, main_pc, files>>

\* take_screenshot, lines 68-80 and 84-85: nothing when the flag is set; else a
\* browser session, whose failure is swallowed
Screenshot(w) ==
    /\ pc[w] = "shot"
    /\ LET port == open_ports[w][idx[w]]
       IN  IF interrupted
           THEN Advance(w) /\ UNCHANGED browser
           ELSE /\ browser' = browser \cup {<<host[w], port, scheme(port)>>}
                /\ IF Capture(host[w], port) THEN Step(w, "shot_lock") ELSE Advance(w)
    /\ UNCHANGED <<other, notice, args, subdomains, task_queue, interrupted, status_lock,
                   scanned_counter, found_counter, screenshot_counter, internal_list,
                   live_results, titles_list, fingerprint_list, main_pc, files>>

\* line 81: with status_lock
AcquireShot(w) ==
    /\ pc[w] = "shot_lock"
    /\ status_lock = 0
    /\ status_lock' = w
    /\ Step(w, "shot_inc")
    /\ UNCHANGED <<other, notice, args, subdomains, task_queue, interrupted, scanned_counter,
                   found_counter, screenshot_counter, internal_list, live_results,
                   titles_list, fingerprint_list, browser, main_pc, files>>

\* lines 82-83, and leaving the with block
ShotCount(w) ==
    /\ pc[w] = "shot_inc"
    /\ screenshot_counter' = screenshot_counter + 1
    /\ status_lock' = 0
    /\ Advance(w)
    /\ UNCHANGED <<other, notice, args, subdomains, task_queue, interrupted, scanned_counter,
                   found_counter, internal_list, live_results, titles_list,
                   fingerprint_list, browser, main_pc, files>>

(***************************************************************************)
(* thc_livecheck.py: the interrupt and the rest of main()                  *)
(***************************************************************************)
\* sigint_handler, lines 172-174 (the rest of it prints). Once the flag is set
\* another SIGINT changes nothing.
Sigint ==
    /\ ~interrupted
    /\ interrupted' = TRUE
    /\ notice' = TRUE
    /\ UNCHANGED <<other, args, subdomains, task_queue, status_lock, scanned_counter,
                   found_counter, screenshot_counter, internal_list, live_results,
                   titles_list, fingerprint_list, pc, host, open_ports, idx, browser,
                   main_pc, files>>

\* MainWaitExit when line 266 is left out
MainWaitExitFlagKept ==
    /\ main_pc = "wait"
    /\ interrupted \/ \A w \in Workers : ~alive(w)
    /\ main_pc' = "join"
    /\ UNCHANGED <<other, notice, args, subdomains, task_queue, interrupted, status_lock,
                   scanned_counter, found_counter, screenshot_counter, internal_list,
                   live_results, titles_list, fingerprint_list, pc, host, open_ports, idx,
                   browser, files>>

\* lines 263-266: the wait loop ends when the flag is set or no thread is alive;
\* main then sets the flag itself
MainWaitExit ==
    /\ main_pc = "wait"
    /\ interrupted \/ \A w \in Workers : ~alive(w)
    /\ interrupted' = TRUE
    /\ main_pc' = "join"
    /\ UNCHANGED <<other, notice, args, subdomains, task_queue, status_lock, scanned_counter,
                   found_counter, screenshot_counter, internal_list, live_results,
                   titles_list, fingerprint_list, pc, host, open_ports, idx, browser,
                   files>>

\* lines 268-305: t.join(timeout=1) returns after a second whether or not the
\* thread has ended, so the files are written from whatever the lists hold
\* then; the summary is printed when the flag is not set
MainSave ==
    /\ main_pc = "join"
    /\ files' = [written |-> TRUE,
                 live |-> live_results,
                 internal |-> internal_list,
                 titles |-> IF args.titles THEN titles_list ELSE <<>>,
                 fingerprint |-> IF args.fingerprint THEN fingerprint_list ELSE <<>>,
                 summary |-> ~interrupted]
    /\ main_pc' = "done"
    /\ UNCHANGED <<other, notice, args, subdomains, task_queue, interrupted, status_lock,
                   scanned_counter, found_counter, screenshot_counter, internal_list,
                   live_results, titles_list, fingerprint_list, pc, host, open_ports,
                   idx, browser>>

Next ==
    \/ \E w \in Workers : Poll(w)
    \/ \E w \in Workers : Resolve(w)
    \/ \E w \in Workers : AcquireInternal(w)
    \/ \E w \in Workers : InternalAppend(w)
    \/ \E w \in Workers : Probe(w)
    \/ \E w \in Workers : AcquireCount(w)
    \/ \E w \in Workers : IncScanned(w)
    \/ \E w \in Workers : IncFound(w)
    \/ \E w \in Workers : LiveAppend(w)
    \/ \E w \in Workers : Fetch(w)
    \/ \E w \in Workers : TitleAppend(w)
    \/ \E w \in Workers : FingerprintAppend(w)
    \/ \E w \in Workers : Screenshot(w)
    \/ \E w \in Workers : AcquireShot(w)
    \/ \E w \in Workers : ShotCount(w)
    \/ Sigint
    \/ MainWaitExit
    \/ MainSave

Spec == Init /\ [][Next]_vars

\* the steps of worker w
WorkerStep(w) ==
    \/ Poll(w)
    \/ Resolve(w)
    \/ AcquireInternal(w)
    \/ InternalAppend(w)
    \/ Probe(w)
    \/ AcquireCount(w)
    \/ IncScanned(w)
    \/ IncFound(w)
    \/ LiveAppend(w)
    \/ Fetch(w)
    \/ TitleAppend(w)
    \/ FingerprintAppend(w)
    \/ Screenshot(w)
    \/ AcquireShot(w)
    \/ ShotCount(w)

\* a step of the program itself: of a worker or of main
Progress == (\E w \in Workers : WorkerStep(w)) \/ MainWaitExit \/ MainSave

\* some thread that can take a step takes one in the end (every blocking call
\* has a timeout and returns); the interrupt may never come
FairSpec == Spec /\ WF_vars(Progress)

(***************************************************************************)
(* One call of is_private_ip, on every address made of up to MaxParts      *)
(* parts joined by dots. The parts include the range boundaries, a         *)
(* non-numeric part and the empty part.                                    *)
(***************************************************************************)
\* the state of thc_livecheck.py's variables while a pure function is called
\* on its own: no run in progress
NoRun ==
    /\ args = [titles |-> FALSE, fingerprint |-> FALSE, screenshots |-> FALSE,
               threads |-> 1]
    /\ subdomains = <<>>
    /\ task_queue = <<>>
    /\ interrupted = FALSE
    /\ notice = FALSE
    /\ status_lock = 0
    /\ scanned_counter = 0
    /\ found_counter = 0
    /\ screenshot_counter = 0
    /\ internal_list = <<>>
    /\ live_results = <<>>
    /\ titles_list = <<>>
    /\ fingerprint_list = <<>>
    /\ pc = [w \in 1..1 |-> "returned"]
    /\ host = [w \in 1..1 |-> ""]
    /\ open_ports = [w \in 1..1 |-> <<>>]
    /\ idx = [w \in 1..1 |-> 0]
    /\ browser = {}
    /\ main_pc = "done"
    /\ files = [written |-> FALSE, live |-> <<>>, internal |-> <<>>, titles |-> <<>>,
                fingerprint |-> <<>>, summary |-> FALSE]

IP_PARTS ==
    {<<"1", "0">>, <<"1", "7", "2">>, <<"1", "9", "2">>, <<"1", "6", "8">>,
     <<"1", "5">>, <<"1", "6">>, <<"3", "1">>, <<"3", "2">>, <<"x">>, <<>>}

RECURSIVE Join(_, _)
\* sep.join(parts)
Join(parts, sep) ==
    IF Len(parts) = 1 THEN parts[1]
    ELSE parts[1] \o <<sep>> \o Join(Tail(parts), sep)

IPStrings == {Join(ps, ".") : ps \in UNION {[1..n -> IP_PARTS] : n \in 1..MaxParts}}

InitClassify ==
    /\ NoRun
    /\ NoRecon
    /\ fn_in \in IPStrings
    /\ fn_out = [done |-> FALSE, value |-> FALSE]

Classify ==
    /\ ~fn_out.done
    /\ fn_out' = [done |-> TRUE, value |-> is_private_ip(fn_in)]
    /\ UNCHANGED <<livecheck, recon, fn_in>>

NextClassify == Classify

SpecClassify == InitClassify /\ [][NextClassify]_vars

(***************************************************************************)
(* One run of the title extraction of worker(), on every response body     *)
(* made of up to MaxTokens tokens: the opening tag in lower and upper      *)
(* case, ">", the closing tag, text, white space, and a run of U+0130      *)
(* (whose lower-case form is longer than the original).                    *)
(***************************************************************************)
TITLE_OPEN_UPPER == <<"<", "T", "I", "T", "L", "E">>

DOTTED_RUN == [i \in 1..7 |-> "U+0130"]

BODY_TOKENS ==
    {TITLE_OPEN, TITLE_OPEN_UPPER, <<">">>, TITLE_CLOSE, <<"a">>, <<" ">>, <<"\n">>,
     DOTTED_RUN}

RECURSIVE Concat(_)
Concat(ts) == IF ts = <<>> THEN <<>> ELSE Head(ts) \o Concat(Tail(ts))

Bodies == {Concat(ts) : ts \in UNION {[1..n -> BODY_TOKENS] : n \in 0..MaxTokens}}

InitTitle ==
    /\ NoRun
    /\ NoRecon
    /\ fn_in \in Bodies
    /\ fn_out = [done |-> FALSE, value |-> <<>>]

ExtractTitle ==
    /\ ~fn_out.done
    /\ fn_out' = [done |-> TRUE, value |-> extract_title(fn_in)]
    /\ UNCHANGED <<livecheck, recon, fn_in>>

NextTitle == ExtractTitle

SpecTitle == InitTitle /\ [][NextTitle]_vars

(***************************************************************************)
(* One run of the fingerprint formatting of worker(), on every response    *)
(* with up to MaxHeaders header fields: Server and X-Powered-By as the     *)
(* code spells them and in lower case, another field, and values that      *)
(* include the empty one.                                                  *)
(***************************************************************************)
VIA == <<"V", "i", "a">>

HEADER_NAMES == {SERVER, Lower(SERVER), X_POWERED_BY, Lower(X_POWERED_BY), VIA}

HEADER_VALUES == {"", "nginx", "PHP/8.1"}

\* the header sets a server can send: no field twice, whatever its case
HeaderSets ==
    {S \in SUBSET HEADER_NAMES :
        /\ Cardinality(S) <= MaxHeaders
        /\ \A j, k \in S : Lower(j) = Lower(k) => j = k}

Responses == UNION {[S -> HEADER_VALUES] : S \in HeaderSets}

InitFingerprint ==
    /\ NoRun
    /\ NoRecon
    /\ fn_in \in Responses
    /\ fn_out = [done |-> FALSE, value |-> ""]

Fingerprint ==
    /\ ~fn_out.done
    /\ fn_out' = [done |-> TRUE, value |-> server_str(fn_in)]
    /\ UNCHANGED <<livecheck, recon, fn_in>>

NextFingerprint == Fingerprint

SpecFingerprint == InitFingerprint /\ [][NextFingerprint]_vars

(***************************************************************************)
(* thc_recon.py: main(), fetch_all() and signal_handler(), and the command  *)
(* being run again on the output file the previous run left.               *)
(*                                                                         *)
(* The API serves the A/AAAA endpoint in SB_PAGES and the CNAME endpoint   *)
(* in CN_PAGES, each page with a link to the next. A request and the       *)
(* parsing and merging of its response are one action: an interrupt        *)
(* between them loses only what is in memory. A save is three kinds of     *)
(* step: open(output_file, 'w') truncates, each f.write adds a line, and   *)
(* leaving the with block closes; output_file.lines is what a close at     *)
(* that point leaves in the file, and sys.exit in signal_handler leaves    *)
(* the with block through that close.                                      *)
(***************************************************************************)
SB_PAGES == <<{"a.t.com", "b.t.com"}, {"b.t.com", "c.t.com"}>>

CN_PAGES == <<{"d.t.com"}>>

\* the entries in the order of sorted()
ENTRIES == <<"a.t.com", "b.t.com", "c.t.com", "d.t.com">>

EntryRank(e) == CHOOSE i \in 1..Len(ENTRIES) : ENTRIES[i] = e

RECURSIVE SortedEntries(_)
\* sorted(all_results)
SortedEntries(S) ==
    IF S = {} THEN <<>>
    ELSE LET m == CHOOSE e \in S : \A f \in S : EntryRank(e) <= EntryRank(f)
         IN  <<m>> \o SortedEntries(S \ {m})

Pages(endpoint) == IF endpoint = "sb" THEN SB_PAGES ELSE CN_PAGES

\* line 82: the first page of an endpoint
FirstPage(endpoint) == [endpoint |-> endpoint, page |-> 1]

\* session.get(url) and parse_response: the entries of the page and its link
Response(u) ==
    [results |-> Pages(u.endpoint)[u.page],
     next_page |-> IF u.page < Len(Pages(u.endpoint))
                   THEN [endpoint |-> u.endpoint, page |-> u.page + 1]
                   ELSE NO_URL]

\* lines 205-206
fetch_sb == ~recon_args.cnames_only

fetch_cn == recon_args.cnames_only \/ ~recon_args.no_cnames

\* the command lines argparse accepts: the two options exclude each other
ReconArgSets ==
    {a \in [cnames_only : BOOLEAN, no_cnames : BOOLEAN] : ~(a.cnames_only /\ a.no_cnames)}

\* the lines of the output file as a set
FileEntries == {output_file.lines[i] : i \in 1..Len(output_file.lines)}

\* the command is started for the first time, with no output file
InitRecon ==
    /\ NoRun
    /\ fn_in = <<>>
    /\ fn_out = [done |-> FALSE, value |-> FALSE]
    /\ recon_args \in ReconArgSets
    /\ recon_pc = "start"
    /\ all_results = {}
    /\ total_requests = 0
    /\ errors = 0
    /\ url_base = ""
    /\ url = NO_URL
    /\ next_page = NO_URL
    /\ status_code = 0
    /\ output_file = [exists |-> FALSE, lines |-> <<>>]
    /\ to_write = <<>>
    /\ run = 1
    /\ left_off = NO_URL
    /\ saved = {}

\* main, lines 211-236: the resume read of the output file, the handler
\* installed, and fetch_all entered for the first endpoint
Resume ==
    /\ recon_pc = "start"
    /\ all_results' = IF output_file.exists THEN FileEntries ELSE {}
    /\ total_requests' = 0
    /\ errors' = 0
    /\ url_base' = (IF fetch_sb THEN "sb" ELSE "cn")
    /\ url' = FirstPage(url_base')
    /\ next_page' = NO_URL
    /\ status_code' = 0
    /\ recon_pc' = "request"
    /\ UNCHANGED <<livecheck, fn_in, fn_out, recon_args, output_file, to_write, run,
                   left_off, saved>>

\* fetch_all, lines 85-117: a request that is answered with a page, its
\* entries merged
Request ==
    /\ recon_pc = "request"
    /\ total_requests' = total_requests + 1
    /\ status_code' = 200
    /\ all_results' = all_results \cup Response(url).results
    /\ next_page' = Response(url).next_page
    /\ recon_pc' = "save_open"
    /\ UNCHANGED <<livecheck, fn_in, fn_out, recon_args, url_base, errors, url, output_file,
                   to_write, run, left_off, saved>>

\* the statuses raise_for_status raises HTTPError for, and 0 for a request that
\* raises another RequestException (a timeout, a refused connection)
FAILURES == {0, 429, 500}

\* a retry policy that gives the endpoint up after a failed request
RequestFailGivesUp ==
    /\ recon_pc = "request"
    /\ errors < MaxErrors
    /\ total_requests' = total_requests + 1
    /\ status_code' \in FAILURES
    /\ errors' = errors + 1
    /\ url' = NO_URL
    /\ recon_pc' = "sleep"
    /\ UNCHANGED <<livecheck, fn_in, fn_out, recon_args, url_base, all_results,
                   next_page, output_file, to_write, run, left_off, saved>>

\* fetch_all, lines 85-105: a request that fails; errors is incremented and,
\* after the sleep, the same url is tried again
RequestFail ==
    /\ recon_pc = "request"
    /\ errors < MaxErrors
    /\ total_requests' = total_requests + 1
    /\ status_code' \in FAILURES
    /\ errors' = errors + 1
    /\ UNCHANGED <<livecheck, fn_in, fn_out, recon_args, url_base, recon_pc, all_results, url,
                   next_page, output_file, to_write, run, left_off, saved>>

\* fetch_all, lines 85-90 and 131, and main, lines 236-248: a 404 ends the
\* endpoint without a save; main enters fetch_all for the CNAME endpoint or
\* goes on to the final save
Request404 ==
    /\ recon_pc = "request"
    /\ total_requests' = total_requests + 1
    /\ status_code' = 404
    /\ IF url_base = "sb" /\ fetch_cn
       THEN recon_pc' = "request" /\ url_base' = "cn" /\ url' = FirstPage("cn")
       ELSE recon_pc' = "final_open" /\ url' = NO_URL /\ UNCHANGED url_base
    /\ UNCHANGED <<livecheck, fn_in, fn_out, recon_args, all_results, errors, next_page,
                   output_file, to_write, run, left_off, saved>>

\* open(output_file, 'w'), lines 120 and 250: the file is created or truncated
Open(from, to) ==
    /\ recon_pc = from
    /\ output_file' = [exists |-> TRUE, lines |-> <<>>]
    /\ to_write' = SortedEntries(all_results)
    /\ recon_pc' = to
    /\ UNCHANGED <<livecheck, fn_in, fn_out, recon_args, status_code, url_base, all_results,
                   total_requests,
                   errors, url, next_page, run, left_off, saved>>

\* f.write(result + "\n"), lines 121-122 and 251-252: one more line
Write(at) ==
    /\ recon_pc = at
    /\ to_write # <<>>
    /\ output_file' = [output_file EXCEPT !.lines = Append(@, Head(to_write))]
    /\ to_write' = Tail(to_write)
    /\ UNCHANGED <<livecheck, fn_in, fn_out, recon_args, status_code, url_base, recon_pc,
                   all_results,
                   total_requests, errors, url, next_page, run, left_off, saved>>

SaveOpen == Open("save_open", "save_write")

SaveWrite == Write("save_write")

\* lines 122-127: the with block left after the last line, the status printed,
\* url = next_page
SaveClose ==
    /\ recon_pc = "save_write"
    /\ to_write = <<>>
    /\ saved' = saved \cup FileEntries
    /\ url' = next_page
    /\ recon_pc' = "sleep"
    /\ UNCHANGED <<livecheck, fn_in, fn_out, recon_args, status_code, url_base, all_results,
                   total_requests,
                   errors, next_page, output_file, to_write, run, left_off>>

\* lines 128-131 and 236-248: the sleep, then the next page, or fetch_all
\* returns and main enters it for the CNAME endpoint or goes on to the final save
Sleep ==
    /\ recon_pc = "sleep"
    /\ IF url # NO_URL
       THEN recon_pc' = "request" /\ UNCHANGED <<url, url_base>>
       ELSE IF url_base = "sb" /\ fetch_cn
            THEN recon_pc' = "request" /\ url_base' = "cn" /\ url' = FirstPage("cn")
            ELSE recon_pc' = "final_open" /\ UNCHANGED <<url, url_base>>
    /\ UNCHANGED <<livecheck, fn_in, fn_out, recon_args, status_code, all_results, total_requests,
                   errors, next_page, output_file, to_write, run, left_off, saved>>

FinalOpen == Open("final_open", "final_write")

FinalWrite == Write("final_write")

\* lines 252-263: the with block left after the last line, the summary, the end
FinalClose ==
    /\ recon_pc = "final_write"
    /\ to_write = <<>>
    /\ saved' = saved \cup FileEntries
    /\ recon_pc' = "done"
    /\ UNCHANGED <<livecheck, fn_in, fn_out, recon_args, status_code, url_base, all_results,
                   total_requests, errors, url, next_page, output_file, to_write, run,
                   left_off>>

\* signal_handler, lines 163-171: sys.exit(0) wherever main is once the handler
\* is installed; a with block over the output file is left through its close
ReconSigint ==
    /\ recon_pc \in {"request", "save_open", "save_write", "sleep", "final_open",
                     "final_write"}
    /\ recon_pc' = "exited"
    /\ left_off' = url
    /\ UNCHANGED <<livecheck, fn_in, fn_out, recon_args, status_code, url_base, all_results,
                   total_requests, errors, url, next_page, output_file, to_write, run,
                   saved>>

\* the same command is started again: a new process, the output file as it is
Rerun ==
    /\ recon_pc \in {"exited", "done"}
    /\ run < MaxRuns
    /\ run' = run + 1
    /\ recon_pc' = "start"
    /\ left_off' = IF recon_pc = "exited" THEN left_off ELSE NO_URL
    /\ all_results' = {}
    /\ total_requests' = 0
    /\ errors' = 0
    /\ url_base' = ""
    /\ url' = NO_URL
    /\ next_page' = NO_URL
    /\ status_code' = 0
    /\ to_write' = <<>>
    /\ UNCHANGED <<livecheck, fn_in, fn_out, recon_args, output_file, saved>>

NextRecon ==
    \/ Resume
    \/ Request
    \/ RequestFail
    \/ Request404
    \/ SaveOpen
    \/ SaveWrite
    \/ SaveClose
    \/ Sleep
    \/ FinalOpen
    \/ FinalWrite
    \/ FinalClose
    \/ ReconSigint
    \/ Rerun

SpecRecon == InitRecon /\ [][NextRecon]_vars

(***************************************************************************)
(* thc_recon.py: aggressive_strip_ansi, parse_response and the link that   *)
(* fetch_all follows                                                       *)
(***************************************************************************)
\* a value that is None or a str
None == [is_none |-> TRUE, str |-> <<>>]

Some(s) == [is_none |-> FALSE, str |-> s]

\* "not v": None and the empty string are false
Falsy(v) == v.is_none \/ v.str = <<>>

\* the character \x1B
ESC == "U+001B"

\* line 39, the class [0-?]
PARAMETER_BYTES == DIGITS \cup {":", ";", "<", "=", ">", "?"}

\* line 39, the class [ -/]
INTERMEDIATE_BYTES ==
    {" ", "!", "\"", "#", "$", "%", "&", "'", "(", ")", "*", "+", ",", "-", ".", "/"}

\* line 39, the class [@-~]; U+0060 is the grave accent
FINAL_BYTES ==
    {UPPERCASE[i] : i \in 1..Len(UPPERCASE)} \cup {LOWERCASE[i] : i \in 1..Len(LOWERCASE)}
        \cup {"@", "[", "\\", "]", "^", "_", "U+0060", "{", "|", "}", "~"}

\* line 40, the class [@-Z\\-_]
INTRODUCER_BYTES ==
    {UPPERCASE[i] : i \in 1..Len(UPPERCASE)} \cup {"@", "\\", "]", "^", "_"}

\* line 41, the class [AB0-2]
CHARSET_BYTES == {"A", "B", "0", "1", "2"}

RECURSIVE SkipClass(_, _, _)
\* the position after the longest run of characters of class that starts at i
SkipClass(s, i, class) ==
    IF i < Len(s) /\ s[i + 1] \in class THEN SkipClass(s, i + 1, class) ELSE i

\* [0-?]*[ -/]*[@-~] matched at position i: the position after the match, or
\* -1. The three classes are disjoint, so the greedy match is the only one.
ControlEnd(s, i) ==
    LET j == SkipClass(s, SkipClass(s, i, PARAMETER_BYTES), INTERMEDIATE_BYTES)
    IN  IF j < Len(s) /\ s[j + 1] \in FINAL_BYTES THEN j + 1 ELSE -1

\* the patterns of lines 39, 40 and 41 matched at position i: the position
\* after the match, or -1
MatchEnd(pattern, s, i) ==
    CASE pattern = "csi" ->
             IF i + 2 <= Len(s) /\ s[i + 1] = ESC /\ s[i + 2] = "["
             THEN ControlEnd(s, i + 2) ELSE -1
      [] pattern = "fe" ->
             IF i + 2 <= Len(s) /\ s[i + 1] = ESC /\ s[i + 2] \in INTRODUCER_BYTES
             THEN ControlEnd(s, i + 2) ELSE -1
      [] pattern = "charset" ->
             IF i + 3 <= Len(s) /\ s[i + 1] = ESC /\ s[i + 2] = "("
                /\ s[i + 3] \in CHARSET_BYTES
             THEN i + 3 ELSE -1

RECURSIVE Sub(_, _, _)
\* re.sub(pattern, '', s) from position i on: the leftmost matches, one after
\* the other, removed
Sub(pattern, s, i) ==
    IF i >= Len(s) THEN <<>>
    ELSE LET e == MatchEnd(pattern, s, i)
         IN  IF e # -1 THEN Sub(pattern, s, e)
             ELSE <<s[i + 1]>> \o Sub(pattern, s, i + 1)

\* lines 36-42
aggressive_strip_ansi(s) ==
    IF s = <<>> THEN None
    ELSE Some(Strip(Sub("charset", Sub("fe", Sub("csi", s, 0), 0), 0)))

\* the line boundaries of str.splitlines() among the characters of the model
LINE_BREAKS == {"\n", "\r"}

RECURSIVE SplitLines(_)
\* text.splitlines(): "\r\n" is one boundary, no empty line after the last one
SplitLines(s) ==
    LET hits == {i \in 1..Len(s) : s[i] \in LINE_BREAKS}
    IN  IF s = <<>> THEN <<>>
        ELSE IF hits = {} THEN <<s>>
        ELSE LET i == CHOOSE h \in hits : \A g \in hits : h <= g
                 j == IF s[i] = "\r" /\ i < Len(s) /\ s[i + 1] = "\n" THEN i + 1 ELSE i
             IN  <<SubSeq(s, 1, i - 1)>> \o SplitLines(SubSeq(s, j + 1, Len(s)))

ENTRIES_TAG == <<";", ";", "E", "n", "t", "r", "i", "e", "s", ":">>

RATE_LIMIT_TAG == <<";", ";", "R", "a", "t", "e", " ", "L", "i", "m", "i", "t", ":">>

NEXT_PAGE_TAG == <<";", ";", "N", "e", "x", "t", " ", "P", "a", "g", "e", ":">>

\* line 76, "https://ip.thc.org/"
THC_PREFIX ==
    <<"h", "t", "t", "p", "s", ":", "/", "/", "i", "p", ".", "t", "h", "c", ".", "o", "r",
      "g", "/">>

RECURSIVE ParseLines(_, _, _)
\* lines 50-73, the loop over the lines: next_page_candidate and results after
\* the lines left. The values of the ;;Entries: and ;;Rate Limit: lines only
\* feed the status line and the sleep, and are not kept here.
ParseLines(lines, next_page_candidate, results) ==
    IF lines = <<>>
    THEN [next_page_candidate |-> next_page_candidate, results |-> results]
    ELSE LET raw_line == Head(lines)
             line == aggressive_strip_ansi(raw_line)
         IN  IF Falsy(line) THEN ParseLines(Tail(lines), next_page_candidate, results)
             ELSE IF MatchAt(line.str, ENTRIES_TAG, 0) \/ MatchAt(line.str, RATE_LIMIT_TAG, 0)
             THEN ParseLines(Tail(lines), next_page_candidate, results)
             ELSE IF MatchAt(line.str, NEXT_PAGE_TAG, 0)
             THEN LET candidate ==
                          Slice(line.str, Find(line.str, <<":">>, 0) + 1, Len(line.str))
                  IN  ParseLines(Tail(lines), aggressive_strip_ansi(candidate), results)
             ELSE IF ~MatchAt(line.str, <<";", ";">>, 0)
             THEN ParseLines(Tail(lines), next_page_candidate,
                             Append(results, Strip(line.str)))
             ELSE ParseLines(Tail(lines), next_page_candidate, results)

\* a parse_response that takes whatever follows ";;Next Page:" as the link
parse_responseAnyLink(text) ==
    LET parsed == ParseLines(SplitLines(text), None, <<>>)
    IN  [next_page |-> parsed.next_page_candidate, results |-> parsed.results]

\* lines 44-79: next_page and results of a response text
parse_response(text) ==
    LET parsed == ParseLines(SplitLines(text), None, <<>>)
        next_page_candidate == parsed.next_page_candidate
    IN  [next_page |->
             IF ~Falsy(next_page_candidate) /\ MatchAt(next_page_candidate.str, THC_PREFIX, 0)
             THEN next_page_candidate ELSE None,
         results |-> parsed.results]

\* a link to another host
FOREIGN_LINK == <<"h", "t", "t", "p", ":", "/", "/", "e", "/">>

RESPONSE_TOKENS ==
    {NEXT_PAGE_TAG, THC_PREFIX, FOREIGN_LINK, <<" ">>, <<"\n">>, <<ESC, "[", "0", "m">>,
     <<ESC, "M">>, <<ESC, "(", "B">>}

Texts == {Concat(ts) : ts \in UNION {[1..n -> RESPONSE_TOKENS] : n \in 0..MaxLinkTokens}}

InitNextPage ==
    /\ NoRun
    /\ NoRecon
    /\ fn_in \in Texts
    /\ fn_out = [done |-> FALSE, value |-> [requested |-> FALSE, url |-> <<>>]]

\* fetch_all, lines 107, 127 and 84-87 for a response with the text fn_in:
\* url = next_page, and session.get(url) if the loop test "while url" passes
FollowNextPage ==
    /\ ~fn_out.done
    /\ LET next_url == parse_response(fn_in).next_page
       IN  fn_out' = [done |-> TRUE,
                      value |-> [requested |-> ~Falsy(next_url), url |-> next_url.str]]
    /\ UNCHANGED <<livecheck, recon, fn_in>>

NextNextPage == FollowNextPage

SpecNextPage == InitNextPage /\ [][NextNextPage]_vars

(***************************************************************************)
(* Properties of thc_livecheck.py                                          *)
(***************************************************************************)
Range(s) == {s[i] : i \in 1..Len(s)}

Min(S) == CHOOSE x \in S : \A y \in S : x <= y

RECURSIVE ScanFrom(_, _)
\* what the port loop finds for h from the i-th port on when nothing cuts it short
ScanFrom(h, i) ==
    IF i > Len(WEB_PORTS) \/ Connect(h, WEB_PORTS[i]) = "raise" THEN <<>>
    ELSE (IF Connect(h, WEB_PORTS[i]) = "open" THEN <<WEB_PORTS[i]>> ELSE <<>>)
         \o ScanFrom(h, i + 1)

\* the open ports of h as an uninterrupted run finds them
ScanResult(h) == IF DNS(h).kind = "ip" THEN ScanFrom(h, 1) ELSE <<>>

\* the live-hosts lines of a run over the input file that nothing cuts short
FullRunLines ==
    {<<h, Sorted(ScanResult(h))>> : h \in {x \in Range(subdomains) : ScanResult(x) # <<>>}}

\* the step is one of worker w
Acting(w) == pc'[w] # pc[w] \/ idx'[w] # idx[w]

\* the step changes the shared aggregate state
AggregateChanged ==
    \/ live_results' # live_results
    \/ internal_list' # internal_list
    \/ titles_list' # titles_list
    \/ fingerprint_list' # fingerprint_list
    \/ scanned_counter' # scanned_counter
    \/ found_counter' # found_counter
    \/ screenshot_counter' # screenshot_counter

\* C1: when a run that no interrupt cut short has written its files, the scanned
\* counter equals the number of queued hosts and the live-hosts file holds
\* exactly one line for each host with an open port.
C1_CompletedRunCountsEveryHost ==
    (files.written /\ ~notice) =>
        /\ scanned_counter = Len(subdomains)
        /\ Len(files.live) = Cardinality(FullRunLines)
        /\ Range(files.live) = FullRunLines

\* C2: whenever the interrupt arrives, the live-hosts lines written are among
\* the lines the run would have written had nothing cut it short.
C2_CancelledRunIsSubset == files.written => Range(files.live) \subseteq FullRunLines

\* the step changes what the code updates inside "with status_lock": the state
\* that print_status reports
LockedStateChanged ==
    \/ internal_list' # internal_list
    \/ scanned_counter' # scanned_counter
    \/ found_counter' # found_counter
    \/ screenshot_counter' # screenshot_counter

Between(w) ==
    \/ /\ pc[w] \in {"probe", "count_lock", "inc_scanned"}
       /\ \E i \in 1..Len(internal_list) : internal_list[i][1] = host[w]
    \/ pc[w] = "inc_found" /\ open_ports[w] # <<>>
    \/ pc[w] = "live"

C5_FilesHoldEveryRecord ==
    files.written =>
        /\ files.live = live_results
        /\ files.internal = internal_list
        /\ args.titles => files.titles = titles_list
        /\ args.fingerprint => files.fingerprint = fingerprint_list

\* sequence t is sequence s with one more element, which is about host h
AppendedFor(s, t, h) == Len(t) = Len(s) + 1 /\ SubSeq(t, 1, Len(s)) = s /\ t[Len(t)][1] = h

\* C6: a live-hosts line, a title line, a fingerprint line, a browser session
\* and an increment of the found counter are only ever produced by a worker
\* whose open_ports is not empty, and for the host it is working on; a host
\* whose open-port set is empty (a host that did not resolve included) gets none.
C6_NothingWithoutOpenPorts ==
    [][/\ found_counter' # found_counter =>
            \E w \in Workers : Acting(w) /\ open_ports[w] # <<>>
       /\ live_results' # live_results =>
            \E w \in Workers : /\ Acting(w) /\ open_ports[w] # <<>>
                               /\ AppendedFor(live_results, live_results', host[w])
       /\ titles_list' # titles_list =>
            \E w \in Workers : /\ Acting(w) /\ open_ports[w] # <<>>
                               /\ AppendedFor(titles_list, titles_list', host[w])
       /\ fingerprint_list' # fingerprint_list =>
            \E w \in Workers : /\ Acting(w) /\ open_ports[w] # <<>>
                               /\ AppendedFor(fingerprint_list, fingerprint_list', host[w])
       /\ browser' # browser =>
            \E w \in Workers : /\ Acting(w) /\ open_ports[w] # <<>>
                               /\ \A b \in browser' \ browser : b[1] = host[w]
      ]_vars

\* C6's case: a host that did not resolve and a host that resolved with no
\* open port have both been scanned, and nothing was produced
C6_Witness ==
    /\ subdomains = <<"b.example.com", "e.example.com">>
    /\ scanned_counter = 2
    /\ found_counter = 0
    /\ live_results = <<>>
    /\ \A w \in Workers : pc[w] = "returned"

\* C7: after a run with -s that no interrupt cut short, a browser session was
\* launched for every open port of every live host.
C7_ScreenshotForEveryOpenPort ==
    (files.written /\ ~notice /\ args.screenshots) =>
        \A i \in 1..Len(live_results) :
            \A k \in 1..Len(live_results[i][2]) :
                <<live_results[i][1], live_results[i][2][k], scheme(live_results[i][2][k])>>
                    \in browser

\* the positions of a worker that has taken a host and not yet counted it
UNCOUNTED ==
    {"resolve", "internal_lock", "internal_append", "probe", "count_lock", "inc_scanned"}

\* worker w has taken a host and not yet counted it
InProgress(w) == pc[w] \in UNCOUNTED

\* C8: no failure of a stage ends a worker, and every host taken from the
\* queue is either still in progress or counted in scanned_counter.
C8_StageFailureNeverEndsWorker ==
    /\ \A w \in Workers : pc[w] # "crashed"
    /\ Len(subdomains) - Len(task_queue) =
           scanned_counter + Cardinality({w \in Workers : InProgress(w)})

\* the list is strictly ascending, so without a duplicate
StrictlyAscending(s) == \A i, j \in 1..Len(s) : i < j => s[i] < s[j]

\* worker w is in the loop over its host's open ports
InFetchLoop(w) == pc[w] \in {"fetch", "title", "fingerprint", "shot", "shot_lock", "shot_inc"}

\* C12: the port list of every live-hosts line is strictly ascending, and so is
\* the list a worker's fetch loop goes through, also when the port scan was
\* cut short.
C12_PortsStrictlyAscending ==
    /\ \A i \in 1..Len(live_results) : StrictlyAscending(live_results[i][2])
    /\ \A w \in Workers : InFetchLoop(w) => StrictlyAscending(open_ports[w])

\* C12's case: a host whose open ports were found out of ascending order has
\* its line, and its worker is at the second port of the fetch loop
C12_Witness ==
    \E w \in Workers :
        /\ host[w] = "c.example.com"
        /\ pc[w] = "fetch"
        /\ idx[w] = 2
        /\ open_ports[w] = <<8000, 8080>>
        /\ \E i \in 1..Len(live_results) : live_results[i] = <<host[w], open_ports[w]>>

\* C15: the scanned counter never decreases and never exceeds the number of
\* queued hosts, and it goes up by one exactly in the steps in which a worker
\* is done with the resolution and port scan of the host it dequeued, however
\* they ended.
C15_ScannedOncePerDequeuedHost ==
    [][/\ scanned_counter' >= scanned_counter
       /\ scanned_counter' <= Len(subdomains)
       /\ (\E w \in Workers : pc[w] \in UNCOUNTED /\ pc'[w] \notin UNCOUNTED)
             <=> scanned_counter' = scanned_counter + 1
      ]_vars

\* the port answers the probe with result 0
IsOpen(h, p) == Connect(h, p) = "open"

\* C16: when a worker is done with the port scan of a resolved host and the flag
\* is not set, it has probed all eight ports in list order, and its open ports
\* are the ports that answered, every failed probe counting as closed.
C16_AllPortsProbed ==
    \A w \in Workers :
        (pc[w] = "count_lock" /\ DNS(host[w]).kind = "ip" /\ ~interrupted) =>
            /\ idx[w] = Len(WEB_PORTS) + 1
            /\ open_ports[w] = SelectSeq(WEB_PORTS, LAMBDA p : IsOpen(host[w], p))

\* the step of worker w is a blocking call that went through: a host taken
\* from the queue, a name resolved, a port probed, a response received, a
\* browser session launched
BlockingCall(w) ==
    \/ pc[w] = "poll" /\ pc'[w] = "resolve"
    \/ pc[w] = "resolve" /\ pc'[w] # "resolve"
    \/ pc[w] = "probe" /\ idx'[w] = idx[w] + 1
    \/ pc[w] = "fetch" /\ pc'[w] \in {"title", "fingerprint", "shot"}
    \/ pc[w] = "shot" /\ browser' # browser

\* C17: a worker makes a blocking call only from a state in which the flag is
\* not set, that is, after a read of the flag directly before the call that
\* found it unset.
C17_FlagReadBeforeBlockingCall ==
    [][\A w \in Workers : BlockingCall(w) => ~interrupted]_vars

\* C18: in every fair run, with or without an interrupt, the output files are
\* written in the end and every worker has ended by returning from a poll that
\* saw the flag set or the queue empty.
C18_EveryWorkerReturnsAndFilesWritten ==
    <>(files.written /\ \A w \in Workers : pc[w] = "returned")

\* C19: there are never more live-hosts lines than the found counter says, the
\* found counter never exceeds the scanned counter, nor that the number of
\* hosts in the input; once every worker has ended, lines and found counter
\* are equal.
C19_CountersOrdered ==
    /\ Len(live_results) <= found_counter
    /\ found_counter <= scanned_counter
    /\ scanned_counter <= Len(subdomains)
    /\ (\A w \in Workers : ~alive(w)) => Len(live_results) = found_counter

\* C19's case: two workers have ended after scanning two hosts, one of which
\* was found live and has its line
C19_Witness ==
    /\ args.threads = 2
    /\ \A w \in Workers : ~alive(w)
    /\ scanned_counter = 2
    /\ found_counter = 1
    /\ Len(live_results) = 1

\* C20: whenever main writes the output files the flag is set, after an interrupt
\* and after the queue was drained alike, so that the summary guarded by
\* "not interrupted" is never printed.
C20_FlagSetWhenFilesWritten ==
    /\ main_pc \in {"join", "done"} => interrupted
    /\ files.written => interrupted /\ ~files.summary

\* C20's case: the files have been written in a run that no interrupt cut
\* short and in which every host was scanned
C20_Witness ==
    /\ files.written
    /\ ~notice
    /\ scanned_counter = Len(subdomains)
    /\ \A w \in Workers : pc[w] = "returned"

(***************************************************************************)
(* Properties of is_private_ip and of the title extraction                 *)
(***************************************************************************)
\* a dotted quad: four parts, each one to three digits with a value up to 255
WellFormedQuad(ip) ==
    LET parts == Split(ip, ".")
    IN  /\ Len(parts) = 4
        /\ \A k \in 1..4 :
              /\ parts[k] # <<>>
              /\ Len(parts[k]) <= 3
              /\ \A c \in Range(parts[k]) : c \in DIGITS
              /\ DigitsVal(parts[k]) <= 255

PrivateQuad(ip) ==
    /\ WellFormedQuad(ip)
    /\ LET o1 == DigitsVal(Split(ip, ".")[1])
           o2 == DigitsVal(Split(ip, ".")[2])
       IN  \/ o1 = 10
           \/ o1 = 172 /\ 16 <= o2 /\ o2 <= 31
           \/ o1 = 192 /\ o2 = 168

\* C9: is_private_ip returns true exactly for the well-formed dotted quads in
\* 10/8, 172.16/12 and 192.168/16, and false for every malformed input.
C9_ClassifierIffPrivateQuad == fn_out.done => (fn_out.value <=> PrivateQuad(fn_in))

\* the title as the claim describes it
ClaimedTitle(text) ==
    LET opens == {i \in 0..(Len(text) - 6) : Lower(Slice(text, i, i + 6)) = TITLE_OPEN}
    IN  IF opens = {} THEN NO_TITLE
        ELSE LET gts == {j \in Min(opens)..(Len(text) - 1) : text[j + 1] = ">"}
             IN  IF gts = {} THEN NO_TITLE
                 ELSE LET from == Min(gts) + 1
                          closes == {k \in from..(Len(text) - 8) :
                                        MatchAt(text, TITLE_CLOSE, k)}
                      IN  IF closes = {} THEN NO_TITLE
                          ELSE Strip(Replace(Replace(Slice(text, from, Min(closes)),
                                                     "\n", " "), "\r", " "))

\* C10: the title is the text between the first ">" after the first
\* case-insensitive "<title" and the next "</title>", line breaks replaced by
\* spaces and trimmed; it is "No title" whenever either tag is not found.
C10_TitleAsDescribed == fn_out.done => fn_out.value = ClaimedTitle(fn_in)

(***************************************************************************)
(* Properties of the fingerprint formatting                                *)
(***************************************************************************)
\* whether the response has the header field, in any case
HasHeader(headers, name) == \E k \in DOMAIN headers : Lower(k) = Lower(name)

\* the value of a header field the response has
HeaderValue(headers, name) == headers[CHOOSE k \in DOMAIN headers : Lower(k) = Lower(name)]

\* the Server value, or "Unknown" without a Server header
ServerPart(headers) ==
    IF HasHeader(headers, SERVER) THEN HeaderValue(headers, SERVER) ELSE "Unknown"

\* C11 as stated: the fingerprint is the Server value or "Unknown", followed by
\* " (value)" exactly when the response has an X-Powered-By header, whatever
\* its value.
C11_SuffixWheneverPresent ==
    fn_out.done =>
        fn_out.value =
            IF HasHeader(fn_in, X_POWERED_BY)
            THEN ServerPart(fn_in) \o " (" \o HeaderValue(fn_in, X_POWERED_BY) \o ")"
            ELSE ServerPart(fn_in)

\* C11 as amended: the fingerprint is the Server value or "Unknown", followed by
\* " (value)" exactly when the response has an X-Powered-By header whose value
\* is not empty.
C11_SuffixWhenNotEmpty ==
    fn_out.done =>
        fn_out.value =
            IF HasHeader(fn_in, X_POWERED_BY) /\ HeaderValue(fn_in, X_POWERED_BY) # ""
            THEN ServerPart(fn_in) \o " (" \o HeaderValue(fn_in, X_POWERED_BY) \o ")"
            ELSE ServerPart(fn_in)

\* C11's case: a response without a Server header and with a lower-case
\* X-Powered-By header has been formatted
C11_Witness ==
    /\ fn_out.done
    /\ DOMAIN fn_in = {Lower(X_POWERED_BY)}
    /\ fn_out.value = "Unknown (PHP/8.1)"


(***************************************************************************)
(* Properties of thc_recon.py                                              *)
(***************************************************************************)
\* C13: when the command is run again after an interrupted run, the entries in
\* the output file are read back, and the first request of the new run is for
\* the page the interrupted run was at.
C13_RerunContinuesWhereStopped ==
    [][/\ (recon_pc = "start" /\ recon_pc' = "request") => FileEntries \subseteq all_results'
       /\ (run > 1 /\ left_off # NO_URL /\ recon_pc = "request" /\ total_requests = 0
              /\ total_requests' = 1)
             => url = left_off
      ]_vars

\* C14: whenever no save is under way (an interrupted run and a later run of the
\* command included), the output file holds every entry that a completed save
\* has put in it.
C14_SavedEntriesStayInFile ==
    recon_pc \notin {"save_write", "final_write"} => saved \subseteq FileEntries

\* a request that has just been made and has failed with something other than a 404
FailedRequest ==
    /\ recon_pc = "request"
    /\ total_requests' = total_requests + 1
    /\ status_code' \notin {200, 404}

\* fetch_all returns: within one run of the command, main leaves the loop of an
\* endpoint for the next endpoint or for the final save
FetchAllReturns ==
    /\ recon_pc \in {"request", "save_open", "save_write", "sleep"}
    /\ run' = run
    /\ \/ url_base' # url_base
       \/ recon_pc' = "final_open"

NextPageValue(text) == ParseLines(SplitLines(text), None, <<>>).next_page_candidate

\* C22: the URL that fetch_all requests after a response is a next-page link
\* that starts with "https://ip.thc.org/" (its first URL is built by main from
\* the same prefix), and after a response whose next-page value does not start
\* with that prefix no further URL is requested: the pagination ends.
C22_OnlyThcLinksFollowed ==
    fn_out.done =>
        /\ fn_out.value.requested =>
               /\ MatchAt(fn_out.value.url, THC_PREFIX, 0)
               /\ fn_out.value.url = NextPageValue(fn_in).str
        /\ ~MatchAt(NextPageValue(fn_in).str, THC_PREFIX, 0) => ~fn_out.value.requested

\* a response whose next-page line carries escape sequences around a link with
\* the prefix: the link, cleaned, has been requested
C22_Witness ==
    /\ fn_out.done
    /\ fn_out.value.requested
    /\ \E i \in 1..Len(fn_in) : fn_in[i] = ESC
    /\ MatchAt(fn_in, NEXT_PAGE_TAG, 0)
    /\ Len(fn_out.value.url) < Len(fn_in) - Len(NEXT_PAGE_TAG)

====
